---- MODULE Spec2Model ----
(***************************************************************************)
(* Model of the Carma historical scraper (src/carma_scraper.py):           *)
(* the consumption extractor, the date parser, the reconciliation writer   *)
(* (save_to_database) over the four SQLite tables, and the collection      *)
(* driver (scrape_historical_data) with its step-back navigation.          *)
(*                                                                         *)
(* Conventions.  A Python None / SQL NULL is the empty tuple Null, a       *)
(* present value v is the one-element tuple <<v>>.  kWh values are         *)
(* integers in tenths of a kWh (12.5 kWh is 125).  A quoted chart category *)
(* 'a/b/c' is the tuple of its '/'-separated components <<"a","b","c">>.   *)
(* A table is the sequence of its rows in rowid order.                     *)
(***************************************************************************)
EXTENDS Integers, Sequences, FiniteSets, TLC

VARIABLES
    current_page_html,     \* self.current_page_html: the page body held by the session
    data,                  \* the reading returned by extract_consumption_data
    db,                    \* the SQLite database at db_path: its four tables
    save_result,           \* Null before any call, else <<return value of save_to_database>>
    before,                \* db as it was when the last save_to_database call began
    saves,                 \* number of save_to_database calls made
    pc,                    \* position of the running procedure
    months_back,           \* argument months_back of scrape_historical_data
    stop_on_empty,         \* argument stop_on_empty of scrape_historical_data
    month_num,             \* the loop variable of the backward loop
    months_collected,      \* local months_collected
    empty_months,          \* local empty_months
    processed_months,      \* self.processed_months
    nav_result,            \* local nav_result: "True", "False" or "retry_500"
    nav_calls,             \* step-back requests sent in the current loop iteration
    outcomes,              \* per processed month of the run, in order: "data" or "empty"
    log,                   \* the last line the driver printed
    attempts,              \* local attempts of navigate_to_current_month
    next_month_btn,        \* local next_month_btn of navigate_to_current_month
    forward_posts,         \* forward postbacks sent by navigate_to_current_month
    step_backs,            \* step-back postbacks sent by the backward loop
    response_url,          \* Null, else <<response.url of the login post>>
    returned,              \* Null while running, else <<return value of scrape_historical_data>>
    slept,                 \* seconds of each time.sleep call made since the pacing of the iteration
    posted,                \* Null, else <<the navigation postback just sent and what it met>>
    empty_keys,            \* months that raised empty_months since it was last 0
    nav_response,          \* what the postback of a lone navigate_to_previous_month call met
    nav_retry,             \* argument retry_on_500 of that call
    worker,                \* home_assistant_api: position of each thread that updates
    triggers,              \* home_assistant_api: POST /api/update requests served
    pause_interval,        \* argument pause_interval of scrape_historical_data
    pause_duration,        \* argument pause_duration of scrape_historical_data
    pause_left             \* Null, else <<the loop variable i of the long pause>>

\* The variables of a scrape run.
run == <<months_back, stop_on_empty, month_num, months_collected, empty_months,
         processed_months, nav_result, nav_calls, outcomes, log, attempts,
         next_month_btn, forward_posts, step_backs, response_url, returned,
         slept, posted, empty_keys>>

\* The variables of a lone navigate_to_previous_month call.
call == <<nav_response, nav_retry>>

\* The variables of the serving layer of home_assistant_api.py.
api == <<worker, triggers>>

\* The variables of the pacing at the head of a backward-loop iteration.
pace == <<pause_interval, pause_duration, pause_left>>

vars == <<current_page_html, data, db, save_result, before, saves, pc, run, call, api,
          pace>>

Null == <<>>

Some(v) == <<v>>

\* The value inside a present optional.
Get(o) == o[1]

(***************************************************************************)
(* Bounds of the model.                                                    *)
(***************************************************************************)
\* Longest categories / series list of a page.
MaxDays == 2

\* Number of save_to_database calls in one behaviour of StoreSpec.
MaxSaves == 2

(***************************************************************************)
(* datetime.strptime                                                       *)
(***************************************************************************)
DayNames == {"01", "02", "04", "31"}

DayValue(s) == CASE s = "01" -> 1 [] s = "02" -> 2 [] s = "04" -> 4 [] s = "31" -> 31

AbbrMonths == {"Feb", "Mar"}

FullMonths == {"February", "March"}

MonthValue(s) == CASE s \in {"Feb", "February"} -> 2 [] s \in {"Mar", "March"} -> 3

YearNames == {"2024"}

YearValue(s) == CASE s = "2024" -> 2024

\* str(year) as the f-string of parse_date renders it; "None" for a missing year.
YearStr(year) == IF year = Null THEN "None" ELSE CASE Get(year) = 2024 -> "2024"

WeekdayNames == {"Monday"}

DaysInMonth(m, y) ==
    CASE m = 2 -> (IF y % 4 = 0 /\ (y % 100 # 0 \/ y % 400 = 0) THEN 29 ELSE 28)
      [] m \in {4, 6, 9, 11} -> 30
      [] OTHER -> 31

\* Whether the text s is accepted by the strptime directive dir.
Matches(s, dir) ==
    CASE dir = "%d" -> s \in DayNames
      [] dir = "%b" -> s \in AbbrMonths
      [] dir = "%B" -> s \in FullMonths
      [] dir = "%Y" -> s \in YearNames
      [] dir = "%A" -> s \in WeekdayNames
      [] OTHER -> FALSE

\* _strptime compiles the format into a regular expression with one named
\* group per directive; a directive that occurs twice redefines its group and
\* re.compile raises re.error before any input is looked at.
FormatCompiles(fmt) == \A i, j \in 1..Len(fmt) : i # j => fmt[i] # fmt[j]

Field(parts, fmt, dir) == parts[CHOOSE i \in 1..Len(fmt) : fmt[i] = dir]

MonthDirective(fmt) == IF \E i \in 1..Len(fmt) : fmt[i] = "%b" THEN "%b" ELSE "%B"

\* datetime.strptime(text, format).date(): parts are the fields of the text,
\* fmt the directives of the format, both split at the separators.  Null
\* stands for any exception raised.
Strptime(parts, fmt) ==
    IF ~FormatCompiles(fmt) THEN Null
    ELSE IF Len(parts) # Len(fmt) THEN Null
    ELSE IF \E i \in 1..Len(fmt) : ~Matches(parts[i], fmt[i]) THEN Null
    ELSE LET d == DayValue(Field(parts, fmt, "%d"))
             m == MonthValue(Field(parts, fmt, MonthDirective(fmt)))
             y == YearValue(Field(parts, fmt, "%Y"))
         IN  IF d > DaysInMonth(m, y) THEN Null
             ELSE Some([year |-> y, month |-> m, day |-> d])

PrimaryFormat == <<"%d", "%b", "%Y", "%Y">>

AlternativeFormat == <<"%d", "%b", "%Y">>

\* parse_date(date_str, year): the primary attempt on f"{date_str}/{year}",
\* then the alternative format on date_str alone; None when both raise.
parse_date(date_str, year) ==
    LET primary == Strptime(date_str \o <<YearStr(year)>>, PrimaryFormat)
    IN  IF primary # Null THEN primary ELSE Strptime(date_str, AlternativeFormat)

(***************************************************************************)
(* Page bodies                                                             *)
(*   title      Null, or <<[during, loc]>>: the chart title                *)
(*              '... Daily Consumption [During <Month> <Year>] [for <loc>]'*)
(*   subtitle   Null, or <<[asof, value]>>: 'Reading as of <asof> is       *)
(*              <value> kWh'                                               *)
(*   categories the quoted entries of the categories list                  *)
(*   series     the comma-separated entries of the Daily Consumption data  *)
(***************************************************************************)
Num(v) == [kind |-> "num", v |-> v]

Obj(v) == [kind |-> "obj", v |-> v]

Junk == [kind |-> "junk", v |-> 0]

\* An object entry whose y: value is made of digits and dots that are no
\* number, as in {y: 1.2.3}.
Dots == [kind |-> "dots", v |-> 0]

MarchKey == <<"March", 2024>>

FebruaryKey == <<"February", 2024>>

MainHouse == "Main House"

Titles ==
    { Some([during |-> MarchKey, loc |-> Some(MainHouse)]),
      Some([during |-> MarchKey, loc |-> Null]),
      Some([during |-> Null, loc |-> Some(MainHouse)]),
      Null }

LongDate == <<"Monday", "04", "March", "2024">>

Subtitles ==
    { Null,
      Some([asof |-> LongDate, value |-> 15234]),
      Some([asof |-> <<"04/03/2024">>, value |-> 15234]) }

SeqsUpTo(S, n) == UNION { [1..k -> S] : k \in 0..n }

Tokens ==
    { <<"01", "Mar">>, <<"02", "Mar">>, <<"01", "Mar", "2024">>,
      <<"02", "Mar", "2024">>, <<"31", "Feb", "2024">>, <<"Avg">> }

Items == { Num(0), Num(80), Num(125), Num(-30), Obj(80), Obj(-30), Junk, Dots }

\* Every page body the extractor is applied to in ExtractSpec.
ExtractPages ==
    [ title : Titles, subtitle : Subtitles,
      categories : SeqsUpTo(Tokens, MaxDays), series : SeqsUpTo(Items, MaxDays) ]

(***************************************************************************)
(* extract_current_month, extract_consumption_data                         *)
(***************************************************************************)
\* extract_current_month(html): (month, year) or None.
extract_current_month(html) ==
    IF html.title = Null THEN Null ELSE Get(html.title).during

RECURSIVE Sum(_)
Sum(values) == IF values = <<>> THEN 0 ELSE values[1] + Sum(Tail(values))

\* sum(values) / len(values), kept as the exact quotient.
Mean(values) == [num |-> Sum(values), den |-> Len(values)]

RECURSIVE SelectTokens(_)
\* [d for d in dates if d and '/' in d]
SelectTokens(dates) ==
    IF dates = <<>> THEN <<>>
    ELSE (IF Len(dates[1]) >= 2 THEN <<dates[1]>> ELSE <<>>) \o SelectTokens(Tail(dates))

\* As ItemValue, with a sign accepted in front of the y: value.
ItemValueSigned(item) ==
    CASE item.kind \in {"num", "obj"} -> Some(item.v)
      [] OTHER -> Null

\* The float one series entry yields, or Null when the entry is skipped.
ItemValue(item) ==
    CASE item.kind = "num" -> Some(item.v)
      [] item.kind = "obj" -> IF item.v >= 0 THEN Some(item.v) ELSE Null
      [] OTHER -> Null

RECURSIVE ParseSeries(_)
ParseSeries(items) ==
    IF items = <<>> THEN <<>>
    ELSE ItemValue(items[1]) \o ParseSeries(Tail(items))

\* values.append(float(y_match.group(1))) raises ValueError, which nothing
\* catches: y_match.group(1) matches [\d.]+ and is no float.
RaisesValueError(html) ==
    \E i \in 1..Len(html.series) : html.series[i].kind = "dots"

\* The data dict as extract_consumption_data initialises it.
EmptyData ==
    [ location |-> Null, month |-> Null, year |-> Null,
      dates |-> <<>>, consumption |-> <<>>,
      meter_reading |-> Null, reading_date |-> Null,
      total_consumption |-> Null, average_daily |-> Null ]

extract_consumption_data(html) ==
    LET t == html.title
        during == IF t = Null THEN Null ELSE Get(t).during
        values == ParseSeries(html.series)
    IN  [ location |-> IF t = Null THEN Null ELSE Get(t).loc,
          month |-> IF during = Null THEN Null ELSE Some(during[1]),
          year |-> IF during = Null THEN Null ELSE Some(during[2]),
          dates |-> SelectTokens(html.categories),
          consumption |-> values,
          meter_reading |-> IF html.subtitle = Null THEN Null
                            ELSE Some(Get(html.subtitle).value),
          reading_date |-> IF html.subtitle = Null THEN Null
                           ELSE Some(Get(html.subtitle).asof),
          total_consumption |-> IF values = <<>> THEN Null ELSE Some(Sum(values)),
          average_daily |-> IF values = <<>> THEN Null ELSE Some(Mean(values)) ]

(***************************************************************************)
(* The SQLite tables and save_to_database                                  *)
(***************************************************************************)
\* SQL comparison col = ?: never true when either side is NULL.  The UNIQUE
\* constraints compare the same way, so rows with a NULL column never conflict.
SqlEq(a, b) == a # Null /\ b # Null /\ a = b

\* UNIQUE(reading_date, location)
MeterKey(r, s) == SqlEq(Some(r.reading_date), Some(s.reading_date)) /\ SqlEq(r.location, s.location)

\* UNIQUE(month, year, location)
MonthLocationKey(r, s) ==
    SqlEq(r.month, s.month) /\ SqlEq(r.year, s.year) /\ SqlEq(r.location, s.location)

\* Two rows conflict on the UNIQUE key of their table.
Conflict(unique, r, s) ==
    IF unique = "reading_date, location" THEN MeterKey(r, s) ELSE MonthLocationKey(r, s)

\* As InsertOrReplace, keeping the stored row on a conflict (INSERT OR IGNORE).
InsertOrIgnore(table, row, unique) ==
    IF \E i \in 1..Len(table) : Conflict(unique, table[i], row)
    THEN table
    ELSE table \o <<row>>

\* INSERT OR REPLACE: the rows that conflict on the UNIQUE key are deleted and
\* the new row gets a fresh rowid.
InsertOrReplace(table, row, unique) ==
    SelectSeq(table, LAMBDA r : ~Conflict(unique, r, row)) \o <<row>>

RECURSIVE Zip(_, _)
\* zip(dates, consumption): pairs up to the shorter length.
Zip(dates, consumption) ==
    IF dates = <<>> \/ consumption = <<>> THEN <<>>
    ELSE <<<<dates[1], consumption[1]>>>> \o Zip(Tail(dates), Tail(consumption))

\* Python truthiness of the optional float data['meter_reading'].
TruthyNumber(o) == o # Null /\ Get(o) # 0

\* Python truthiness of the optional string data['reading_date'].
TruthyText(o) == o # Null /\ Get(o) # <<>>

LongFormat == <<"%A", "%d", "%B", "%Y">>

\* The rowids of SELECT ... WHERE consumption_date = ? AND location = ?
Existing(table, date, location) ==
    { i \in 1..Len(table) :
        table[i].consumption_date = date /\ SqlEq(table[i].location, location) }

\* As UpdateAllowed, with zero let through.
UpdateAllowedZero(consumption, existing_consumption) ==
    consumption >= 0 /\ consumption # existing_consumption

\* As UpdateAllowed, without the "never update to 0" test.
UpdateAllowedAnyValue(consumption, existing_consumption) ==
    consumption # existing_consumption

\* The guard of the UPDATE branch.
UpdateAllowed(consumption, existing_consumption) ==
    consumption > 0 /\ consumption # existing_consumption

\* As InsertAllowed, with zero let through.
InsertAllowedZero(consumption) == consumption >= 0

\* The guard of the INSERT branch.
InsertAllowed(consumption) == consumption > 0

\* One pass of the loop body over (date_str, consumption).
SaveDay(table, date_str, consumption, d) ==
    LET date_obj == parse_date(date_str, d.year)
    IN  IF date_obj = Null THEN table
        ELSE LET found == Existing(table, Get(date_obj), d.location)
             IN  IF found # {}
                 THEN LET id == CHOOSE i \in found : \A j \in found : i <= j
                      IN  IF UpdateAllowed(consumption, table[id].consumption_kwh)
                          THEN [table EXCEPT ![id] =
                                   [@ EXCEPT !.consumption_kwh = consumption,
                                             !.month = d.month, !.year = d.year]]
                          ELSE table
                 ELSE IF InsertAllowed(consumption)
                      THEN Append(table, [consumption_date |-> Get(date_obj),
                                          consumption_kwh |-> consumption,
                                          location |-> d.location,
                                          month |-> d.month, year |-> d.year])
                      ELSE table

RECURSIVE SaveDays(_, _, _)
SaveDays(table, pairs, d) ==
    IF pairs = <<>> THEN table
    ELSE SaveDays(SaveDay(table, pairs[1][1], pairs[1][2], d), Tail(pairs), d)

\* Where a sqlite3.Error (locked database, I/O error) strikes in one call.
Faults == {"none", "meter", "daily", "summary", "history", "commit"}

\* The except clause around the meter_readings INSERT: a bare except, which
\* swallows whatever the parse or the INSERT raises.
MeterWritten(reading_dt, fault) == reading_dt # Null /\ fault # "meter"

meter_readings == db.meter

daily_consumption == db.daily

consumption_summary == db.summary

scraping_history == db.history

\* save_to_database(data) on the tables t with a storage fault at `fault`:
\* the value returned and the tables the call leaves behind.
save_to_database(d, t, fault) ==
    IF d.consumption = <<>> THEN [ok |-> FALSE, tables |-> t]
    ELSE
    LET reading_dt == IF TruthyNumber(d.meter_reading) /\ TruthyText(d.reading_date)
                      THEN Strptime(Get(d.reading_date), LongFormat)
                      ELSE Null
        meter == IF MeterWritten(reading_dt, fault)
                 THEN InsertOrReplace(t.meter,
                          [reading_date |-> Get(reading_dt),
                           meter_value |-> Get(d.meter_reading),
                           unit |-> "kWh", location |-> d.location], "reading_date, location")
                 ELSE t.meter
        pairs == Zip(d.dates, d.consumption)
        touched == \E i \in 1..Len(pairs) : parse_date(pairs[i][1], d.year) # Null
        daily == SaveDays(t.daily, pairs, d)
        summary == InsertOrReplace(t.summary,
                       [month |-> d.month, year |-> d.year,
                        total_consumption |-> d.total_consumption,
                        average_daily |-> d.average_daily,
                        days_count |-> Len(d.consumption),
                        location |-> d.location], "month, year, location")
        history == InsertOrReplace(t.history,
                       [month |-> d.month, year |-> d.year, location |-> d.location,
                        records_count |-> Len(d.consumption)], "month, year, location")
        \* month TEXT NOT NULL, year INTEGER NOT NULL: sqlite3.IntegrityError
        notnull == d.month = Null \/ d.year = Null
        raised == \/ fault = "daily" /\ touched
                  \/ fault \in {"summary", "history", "commit"}
                  \/ notnull
    IN  IF raised THEN [ok |-> FALSE, tables |-> t]
        ELSE [ok |-> TRUE,
              tables |-> [meter |-> meter, daily |-> daily,
                          summary |-> summary, history |-> history]]

(***************************************************************************)
(* ExtractSpec: the extractor applied to every page body of ExtractPages.  *)
(***************************************************************************)
\* Largest number of POST /api/update requests served.
MaxTriggers == 3

\* The threads of home_assistant_api that call update_data_from_scraper: the
\* auto_update_loop thread and one thread per POST /api/update.
Scheduler == <<"auto_update_loop", 0>>

Workers == {Scheduler} \cup { <<"trigger_update", k>> : k \in 1..MaxTriggers }

\* No lone navigation call.
NoCall == nav_response = Null /\ nav_retry = TRUE

\* No serving layer.
NoApi == worker = [w \in Workers |-> "absent"] /\ triggers = 0

\* No pacing under way: the defaults pause_interval=6, pause_duration=30.
NoPace == pause_interval = 6 /\ pause_duration = 30 /\ pause_left = Null

\* No scrape run is under way: a scraper as __init__ leaves it.
NoRun ==
    /\ months_back = 0
    /\ stop_on_empty = TRUE
    /\ month_num = 0
    /\ months_collected = 0
    /\ empty_months = 0
    /\ processed_months = {}
    /\ nav_result = "False"
    /\ nav_calls = 0
    /\ outcomes = <<>>
    /\ log = ""
    /\ attempts = 0
    /\ next_month_btn = "absent"
    /\ forward_posts = 0
    /\ step_backs = 0
    /\ response_url = Null
    /\ returned = Null
    /\ slept = <<>>
    /\ posted = Null
    /\ empty_keys = {}

\* The tables as init_database creates them.
NoTables == [meter |-> <<>>, daily |-> <<>>, summary |-> <<>>, history |-> <<>>]

ExtractInit ==
    /\ current_page_html \in ExtractPages
    /\ data = EmptyData
    /\ db = NoTables
    /\ save_result = Null
    /\ before = NoTables
    /\ saves = 0
    /\ pc = "page"
    /\ NoRun
    /\ NoCall
    /\ NoApi
    /\ NoPace

Extract ==
    /\ pc = "page"
    /\ IF RaisesValueError(current_page_html)
       THEN pc' = "raised" /\ UNCHANGED data
       ELSE /\ data' = extract_consumption_data(current_page_html)
            /\ pc' = "extracted"
    /\ UNCHANGED <<current_page_html, db, save_result, before, saves, run>>
    /\ UNCHANGED <<call, api, pace>>

ExtractNext == Extract

ExtractSpec == ExtractInit /\ [][ExtractNext]_vars

(***************************************************************************)
(* StoreSpec: any sequence of save_to_database calls, each on the reading  *)
(* extracted from some page body, starting from the tables as              *)
(* init_database creates them.                                             *)
(***************************************************************************)
\* Day lists as a month page renders them: the days of the month in order,
\* all without a year or all with one.
DayLists ==
    { << <<"01", "Mar">>, <<"02", "Mar">> >>,
      << <<"01", "Mar", "2024">>, <<"02", "Mar", "2024">> >> }

\* The series of such a page: no entry, the first day alone, or both days.
DaySeries ==
    LET first == {Num(0), Num(80), Num(125)}
        second == {Num(0), Num(80)}
    IN  {<<>>} \cup { <<a>> : a \in first } \cup { <<a, b>> : a \in first, b \in second }

StorePages ==
    [ title : { Some([during |-> MarchKey, loc |-> Some(MainHouse)]),
                Some([during |-> MarchKey, loc |-> Null]) },
      subtitle : { Some([asof |-> LongDate, value |-> 15234]) },
      categories : DayLists,
      series : DaySeries ]

StoreInit ==
    /\ current_page_html \in StorePages
    /\ data = EmptyData
    /\ db = NoTables
    /\ save_result = Null
    /\ before = NoTables
    /\ saves = 0
    /\ pc = "page"
    /\ NoRun
    /\ NoCall
    /\ NoApi
    /\ NoPace

\* data = self.extract_consumption_data(self.current_page_html), and the
\* call self.save_to_database(data) is entered.
StoreExtract ==
    /\ pc = "page"
    /\ data' = extract_consumption_data(current_page_html)
    /\ before' = db
    /\ save_result' = Null
    /\ pc' = "save"
    /\ UNCHANGED <<current_page_html, db, saves, run>>
    /\ UNCHANGED <<call, api, pace>>

\* The body of save_to_database(data), to its return.
StoreSave ==
    /\ pc = "save"
    /\ \E fault \in Faults :
         \E r \in {save_to_database(data, db, fault)} :
             /\ db' = r.tables
             /\ save_result' = Some(r.ok)
    /\ saves' = saves + 1
    /\ pc' = "saved"
    /\ UNCHANGED <<current_page_html, data, before, run>>
    /\ UNCHANGED <<call, api, pace>>

\* The next page body arrives and is extracted, and save_to_database is
\* entered with it.
StoreFetch ==
    /\ pc = "saved"
    /\ saves < MaxSaves
    /\ current_page_html' \in StorePages
    /\ data' = extract_consumption_data(current_page_html')
    /\ before' = db
    /\ save_result' = Null
    /\ pc' = "save"
    /\ UNCHANGED <<db, saves, run>>
    /\ UNCHANGED <<call, api, pace>>

StoreNext == StoreExtract \/ StoreSave \/ StoreFetch

StoreSpec == StoreInit /\ [][StoreNext]_vars

(***************************************************************************)
(* Spec: one scrape run, scrape_historical_data(months_back,               *)
(* stop_on_empty), against a portal that answers each postback with any    *)
(* status and any page body, and a database that may fail at any write.    *)
(***************************************************************************)
\* Largest months_back of a run.
MaxMonthsBack == 4

\* max_empty_months
max_empty_months == 3

\* A month page of the portal: its chart, with or without consumption data.
MonthPage(key, mon, series) ==
    [ title |-> Some([during |-> key, loc |-> Some(MainHouse)]),
      subtitle |-> Some([asof |-> LongDate, value |-> 15234]),
      categories |-> << <<"01", mon, "2024">> >>,
      series |-> series,
      inputs |-> [n \in {"__VIEWSTATE", "__VIEWSTATEGENERATOR", "__EVENTVALIDATION",
                         "__EVENTTARGET", "date_txt"} |-> <<n, mon, series>>] ]

\* A body without a chart title: an error page, or the state before login.
BlankPage ==
    [title |-> Null, subtitle |-> Null, categories |-> <<>>, series |-> <<>>,
     inputs |-> <<>>]

\* The fields get_asp_net_fields looks for.
AspNetFields ==
    {"__VIEWSTATE", "__VIEWSTATEGENERATOR", "__EVENTVALIDATION", "__EVENTTARGET",
     "__EVENTARGUMENT"}

\* get_asp_net_fields(html): the value of each of these inputs the page has.
\* html.inputs maps the name of each input of the page to its value, a tuple;
\* the value '' is <<>>.
get_asp_net_fields(html) ==
    [n \in AspNetFields \cap DOMAIN html.inputs |-> html.inputs[n]]

\* As postback_data, with both navigation buttons in the form.
postback_dataBothButtons(html, button, value) ==
    LET asp_fields == get_asp_net_fields(html)
        buttons == {"prevMonth_btn", "nextMonth_btn"}
    IN  [n \in DOMAIN asp_fields \cup buttons \cup {"__EVENTTARGET", "__EVENTARGUMENT"} |->
            IF n \in buttons THEN <<value>>
            ELSE IF n \in {"__EVENTTARGET", "__EVENTARGUMENT"} THEN <<>>
            ELSE asp_fields[n]]

\* postback_data = {**asp_fields, button: value, '__EVENTTARGET': '',
\* '__EVENTARGUMENT': ''} built from the page html.
postback_data(html, button, value) ==
    LET asp_fields == get_asp_net_fields(html)
    IN  [n \in DOMAIN asp_fields \cup {button, "__EVENTTARGET", "__EVENTARGUMENT"} |->
            IF n = button THEN <<value>>
            ELSE IF n \in {"__EVENTTARGET", "__EVENTARGUMENT"} THEN <<>>
            ELSE asp_fields[n]]

\* The page bodies the portal answers with.
RunPages ==
    { MonthPage(MarchKey, "Mar", <<Num(80)>>), MonthPage(MarchKey, "Mar", <<>>),
      MonthPage(FebruaryKey, "Feb", <<Num(125)>>), MonthPage(FebruaryKey, "Feb", <<>>),
      MonthPage(FebruaryKey, "Feb", <<Dots>>), BlankPage }

\* What session.post comes back with: a response, or a transport exception.
Responses ==
    { [kind |-> "http", status |-> 200, body |-> p] : p \in RunPages }
      \cup { [kind |-> "http", status |-> st, body |-> BlankPage] : st \in {500, 404} }
      \cup { [kind |-> "exception", status |-> 0, body |-> BlankPage] }

\* As navigate_to_previous_month, keeping the view when the body of a 200
\* shows no month.
navigate_to_previous_monthKeepView(view, response, retry_on_500) ==
    IF response.kind = "exception" THEN [result |-> "False", view |-> view]
    ELSE IF response.status = 200
         THEN IF extract_current_month(response.body) # Null
              THEN [result |-> "True", view |-> response.body]
              ELSE [result |-> "False", view |-> view]
    ELSE IF response.status = 500
         THEN [result |-> IF retry_on_500 THEN "retry_500" ELSE "False", view |-> view]
    ELSE [result |-> "False", view |-> view]

\* As navigate_to_previous_month, returning True on every 200.
navigate_to_previous_monthAny200(view, response, retry_on_500) ==
    IF response.kind = "exception" THEN [result |-> "False", view |-> view]
    ELSE IF response.status = 200
         THEN [result |-> "True", view |-> response.body]
    ELSE IF response.status = 500
         THEN [result |-> IF retry_on_500 THEN "retry_500" ELSE "False", view |-> view]
    ELSE [result |-> "False", view |-> view]

\* navigate_to_previous_month(retry_on_500) when the postback sent from
\* `view` is answered by `response`: the value returned and the new
\* current_page_html.
navigate_to_previous_month(view, response, retry_on_500) ==
    IF response.kind = "exception" THEN [result |-> "False", view |-> view]
    ELSE IF response.status = 200
         THEN [result |-> IF extract_current_month(response.body) # Null
                          THEN "True" ELSE "False",
               view |-> response.body]
    ELSE IF response.status = 500
         THEN [result |-> IF retry_on_500 THEN "retry_500" ELSE "False", view |-> view]
    ELSE [result |-> "False", view |-> view]

\* As AfterStepBack, with `continue` where the driver breaks.
AfterStepBackContinue(result) ==
    IF result = "retry_500" THEN "retry1"
    ELSE IF result = "False" THEN "loop"
    ELSE "process"

\* Where the driver goes after the first step-back of an iteration.
AfterStepBack(result) ==
    IF result = "retry_500" THEN "retry1"
    ELSE IF result = "False" THEN "summary"
    ELSE "process"

\* As AfterRetry, going on with the month whatever the retry returned.
AfterRetryProceed(result) == "process"

\* Where the driver goes after the retry that follows the 10 s wait.
AfterRetry(result) ==
    IF result = "False" THEN "retry2" ELSE "process"

\* As AfterSecondRetry, with `break` where the driver continues.
AfterSecondRetryAbort(result) ==
    IF result = "False" THEN "summary" ELSE "process"

\* As AfterSecondRetry, retrying again on failure.
AfterSecondRetryAgain(result) ==
    IF result = "False" THEN "retry2" ELSE "process"

\* Where the driver goes after the retry that follows the 5 s wait:
\* `continue` on failure.
AfterSecondRetry(result) ==
    IF result = "False" THEN "loop" ELSE "process"

\* As RangeEnded, one iteration late.
RangeEndedLate(index, stop) == index > stop

\* for month_num in range(1, months_back): the range is used up.
RangeEnded(index, stop) == index >= stop

\* As StopOnEmpty, one month late.
StopOnEmptyLate(stop, empties) == stop /\ empties > max_empty_months

\* if stop_on_empty and empty_months >= max_empty_months
StopOnEmpty(stop, empties) == stop /\ empties >= max_empty_months

\* As AlreadyProcessed, never taking March 2024 as processed.
AlreadyProcessedButMarch(month_data, processed) ==
    month_data \in processed /\ month_data # <<"March", 2024>>

\* As AlreadyProcessed, with the membership test lost.
NeverProcessed(month_data, processed) == FALSE

\* if month_data in self.processed_months
AlreadyProcessed(month_data, processed) == month_data \in processed

Init ==
    /\ current_page_html = BlankPage
    /\ data = EmptyData
    /\ db = NoTables
    /\ save_result = Null
    /\ before = NoTables
    /\ saves = 0
    /\ pc = "login"
    /\ months_back \in 0..MaxMonthsBack
    /\ stop_on_empty \in BOOLEAN
    /\ month_num = 0
    /\ months_collected = 0
    /\ empty_months = 0
    /\ processed_months = {}
    /\ nav_result = "False"
    /\ nav_calls = 0
    /\ outcomes = <<>>
    /\ log = ""
    /\ attempts = 0
    /\ next_month_btn = "absent"
    /\ forward_posts = 0
    /\ step_backs = 0
    /\ response_url = Null
    /\ returned = Null
    /\ slept = <<>>
    /\ posted = Null
    /\ empty_keys = {}
    /\ NoCall
    /\ NoApi
    /\ NoPace

\* max_attempts = 12  # Don't navigate more than 12 months forward
max_attempts == 12

\* datetime.now(): the month in which the run takes place.
now == MarchKey

\* soup.find('input', {'name': 'nextMonth_btn'}) and its disabled attribute.
Buttons == {"absent", "enabled", "disabled"}

\* The URLs the login post may end on after its redirects, as path segments.
LandingUrl == <<"portal", "graphing.aspx">>

LoginUrls == { LandingUrl, <<"portal", "login.aspx">> }

\* What the login post comes back with.
LoginResponses ==
    { [kind |-> "http", url |-> u, body |-> p, nextMonth_btn |-> b] :
        u \in LoginUrls, p \in RunPages, b \in Buttons }
      \cup { [kind |-> "exception", url |-> <<>>, body |-> BlankPage,
               nextMonth_btn |-> "absent"] }

\* 'graphing.aspx' in response.url
IsLanding(url) == \E i \in 1..Len(url) : url[i] = "graphing.aspx"

\* As login, without the test of the URL.
loginAnyUrl(response) ==
    IF response.kind = "exception" THEN "raise" ELSE "True"

\* login(), up to the call of navigate_to_current_month, when the login post
\* is answered by `response`: "raise" when session.get or session.post
\* raises (nothing catches it), else what login is going to return.
login(response) ==
    IF response.kind = "exception" THEN "raise"
    ELSE IF IsLanding(response.url) THEN "True"
    ELSE "False"

\* if not self.login(): return False.  On success the landing page becomes
\* current_page_html and navigate_to_current_month runs.
Login ==
    /\ pc = "login"
    /\ \E response \in LoginResponses :
          \E r \in {login(response)} :
              /\ response_url' = IF r = "raise" THEN Null ELSE Some(response.url)
              /\ current_page_html' = IF r = "True" THEN response.body
                                      ELSE current_page_html
              /\ next_month_btn' = IF r = "True" THEN response.nextMonth_btn
                                   ELSE next_month_btn
              /\ log' = CASE r = "True" -> "Login successful!"
                          [] r = "False" -> "Login failed"
                          [] OTHER -> "Logging in..."
              /\ returned' = IF r = "False" THEN Some(FALSE) ELSE Null
              /\ pc' = CASE r = "True" -> "align"
                         [] r = "False" -> "done"
                         [] OTHER -> "raised"
    /\ UNCHANGED <<data, db, save_result, before, saves, months_back, stop_on_empty,
                   month_num, months_collected, empty_months, processed_months,
                   nav_result, nav_calls, outcomes, attempts, forward_posts,
                   step_backs, slept, posted, empty_keys>>
    /\ UNCHANGED <<call, api, pace>>

\* What a forward postback comes back with.
ForwardResponses ==
    { [kind |-> "http", status |-> 200, body |-> p, nextMonth_btn |-> b] :
        p \in RunPages, b \in Buttons }
      \cup { [kind |-> "http", status |-> 500, body |-> BlankPage,
               nextMonth_btn |-> "absent"],
             [kind |-> "exception", status |-> 0, body |-> BlankPage,
               nextMonth_btn |-> "absent"] }

\* The Next Month button is there and is not disabled.
NextEnabled(button) == button = "enabled"

\* if current_year == now.year and current_month_name == months[now.month - 1]
AtCurrentMonth(html) == extract_current_month(html) = now

\* As SendsForward, without the test of the button.
SendsForwardAnyButton(html, button, tries) ==
    tries < max_attempts /\ ~AtCurrentMonth(html)

\* As SendsForward, without the bound on attempts.
SendsForwardUnbounded(html, button, tries) ==
    NextEnabled(button) /\ ~AtCurrentMonth(html)

\* navigate_to_current_month sends a forward postback from this view.
SendsForward(html, button, tries) ==
    NextEnabled(button) /\ tries < max_attempts /\ ~AtCurrentMonth(html)

\* As AfterForward, with the transport exception of the post leaving
\* navigate_to_current_month and login.
AfterForwardUncaught(response) ==
    IF response.kind = "exception" THEN "raised"
    ELSE IF response.status = 200 /\ NextEnabled(response.nextMonth_btn) THEN "align"
    ELSE "first"

\* Where the run is after a forward postback met `response`: at the next
\* turn of the while loop, or past login(), which returns True once
\* navigate_to_current_month ended by a break or in its except clause.
AfterForward(response) ==
    IF response.kind = "http" /\ response.status = 200
          /\ NextEnabled(response.nextMonth_btn)
    THEN "align"
    ELSE "first"

\* One turn of navigate_to_current_month: the tests that end it (button
\* absent or disabled, max_attempts reached, current month shown), or one
\* forward postback and the handling of its answer.  Whatever is raised is
\* caught and ends it.
ForwardAlign ==
    /\ pc = "align"
    /\ IF ~SendsForward(current_page_html, next_month_btn, attempts)
       THEN /\ pc' = "first"
            /\ attempts' = 0
            /\ next_month_btn' = "absent"
            /\ log' = IF ~NextEnabled(next_month_btn) THEN log
                      ELSE IF attempts >= max_attempts THEN "Stopped after 12 attempts"
                      ELSE "Already at current month"
            /\ posted' = Null
            /\ UNCHANGED <<current_page_html, forward_posts>>
       ELSE /\ forward_posts' = forward_posts + 1
            /\ \E response \in ForwardResponses :
                /\ posted' = Some([data |-> postback_data(current_page_html,
                                                           "nextMonth_btn", "Next Month"),
                                   response |-> response])
                /\
                  IF response.kind = "exception"
                  THEN /\ log' = "Error navigating to current month"
                       /\ pc' = AfterForward(response)
                       /\ attempts' = 0
                       /\ next_month_btn' = "absent"
                       /\ UNCHANGED current_page_html
                  ELSE IF response.status # 200
                  THEN /\ log' = "Could not navigate forward"
                       /\ pc' = AfterForward(response)
                       /\ attempts' = 0
                       /\ next_month_btn' = "absent"
                       /\ UNCHANGED current_page_html
                  ELSE /\ current_page_html' = response.body
                       /\ IF NextEnabled(response.nextMonth_btn)
                          THEN /\ attempts' = attempts + 1
                               /\ next_month_btn' = response.nextMonth_btn
                               /\ pc' = AfterForward(response)
                               /\ UNCHANGED log
                          ELSE /\ attempts' = 0
                               /\ next_month_btn' = "absent"
                               /\ pc' = AfterForward(response)
                               /\ log' = "Reached most recent month available"
    /\ UNCHANGED <<data, db, save_result, before, saves, months_back, stop_on_empty,
                   month_num, months_collected, empty_months, processed_months,
                   nav_result, nav_calls, outcomes, step_backs, response_url, returned,
                   slept, empty_keys>>
    /\ UNCHANGED <<call, api, pace>>

\* As AfterSave, leaving the loop when the save failed.
AfterSaveAbort(ok) == IF ok THEN "loop" ELSE "summary"

\* Where the driver goes after self.save_to_database(data): the value
\* returned is discarded.
AfterSave(ok) == "loop"

\* Extraction and storage of the month month_data shown by current_page_html:
\* the body shared by "process current month first" and the loop, which goes
\* on with month_num at next_month_num.
ProcessMonth(month_data, next_month_num) ==
    IF RaisesValueError(current_page_html)
    THEN /\ log' = "Processing..."
         /\ pc' = "raised"
         /\ UNCHANGED <<data, db, save_result, before, saves, processed_months,
                        months_collected, empty_months, outcomes, month_num, empty_keys>>
    ELSE /\ data' = extract_consumption_data(current_page_html)
         /\ month_num' = next_month_num
         /\ IF data'.consumption # <<>>
            THEN /\ \E fault \in Faults :
                       \E r \in {save_to_database(data', db, fault)} :
                           /\ db' = r.tables
                           /\ save_result' = Some(r.ok)
                           /\ pc' = AfterSave(r.ok)
                 /\ before' = db
                 /\ saves' = saves + 1
                 /\ processed_months' = processed_months \cup {month_data}
                 /\ months_collected' = months_collected + 1
                 /\ empty_months' = 0
                 /\ empty_keys' = {}
                 /\ outcomes' = Append(outcomes, "data")
                 /\ log' = "Found days of data"
            ELSE /\ empty_months' = empty_months + 1
                 /\ empty_keys' = empty_keys \cup {month_data}
                 /\ outcomes' = Append(outcomes, "empty")
                 /\ log' = "No consumption data found"
                 /\ pc' = "loop"
                 /\ UNCHANGED <<db, save_result, before, saves, processed_months,
                                months_collected>>

\* Process current month first.  login() has returned: the count kept for
\* its navigate_to_current_month call ends here.
ProcessCurrent ==
    /\ pc = "first"
    /\ LET current_month_data == extract_current_month(current_page_html)
       IN  IF current_month_data # Null
           THEN ProcessMonth(current_month_data, 1)
           ELSE /\ month_num' = 1
                /\ pc' = "loop"
                /\ UNCHANGED <<data, db, save_result, before, saves, processed_months,
                               months_collected, empty_months, outcomes, log,
                               empty_keys>>
    /\ forward_posts' = 0
    /\ posted' = Null
    /\ UNCHANGED <<current_page_html, months_back, stop_on_empty, nav_result,
                   nav_calls, attempts, next_month_btn, step_backs, response_url,
                   returned, slept>>
    /\ UNCHANGED <<call, api, pace>>

\* The head of `for month_num in range(1, months_back)`: the end of the
\* range, the stop-on-empty break, or the pause before the step-back.
LoopHead ==
    /\ pc = "loop"
    /\ IF RangeEnded(month_num, months_back)
       THEN /\ pc' = "summary"
            /\ UNCHANGED log
       ELSE IF StopOnEmpty(stop_on_empty, empty_months)
       THEN /\ pc' = "summary"
            /\ log' = "Stopped after consecutive empty months"
       ELSE /\ pc' = "nav"
            /\ UNCHANGED log
    /\ nav_calls' = 0
    /\ slept' = <<>>
    /\ posted' = Null
    /\ UNCHANGED <<current_page_html, data, db, save_result, before, saves,
                   months_back, stop_on_empty, month_num, months_collected,
                   empty_months, processed_months, nav_result, outcomes, attempts, next_month_btn,
                   forward_posts, step_backs, response_url, returned, empty_keys>>
    /\ UNCHANGED <<call, api, pace>>

\* The driver's branch on the result of the call made at position `at`.
After(at, result) ==
    CASE at = "nav" -> AfterStepBack(result)
      [] at = "retry1" -> AfterRetry(result)
      [] at = "retry2" -> AfterSecondRetry(result)

\* One call of navigate_to_previous_month from position `at`, after the
\* driver slept for `delay`, and the driver's branch on its result.
Navigate(at, delay, retry_on_500, failed) ==
    /\ pc = at
    /\ slept' = slept \o delay
    /\ \E response \in Responses :
          \E r \in {navigate_to_previous_month(current_page_html, response, retry_on_500)} :
              /\ posted' = Some([data |-> postback_data(current_page_html,
                                                         "prevMonth_btn", "Prev Month"),
                                 response |-> response])
              /\ current_page_html' = r.view
              /\ nav_result' = r.result
              /\ pc' = After(at, r.result)
              /\ log' = IF r.result = "True" THEN "Navigating to previous month..."
                        ELSE IF r.result = "retry_500" THEN "Server error (500)"
                        ELSE failed
              /\ month_num' = IF After(at, r.result) = "loop" THEN month_num + 1 ELSE month_num
    /\ nav_calls' = nav_calls + 1
    /\ step_backs' = step_backs + 1
    /\ UNCHANGED <<data, db, save_result, before, saves, months_back, stop_on_empty,
                   months_collected, empty_months, processed_months, outcomes,
                   attempts, next_month_btn, forward_posts, response_url, returned,
                   empty_keys>>
    /\ UNCHANGED <<call, api, pace>>

\* time.sleep(10) before the retry that follows 'retry_500'.
RetryWait == 10

\* time.sleep(5) before the retry that follows the failed retry.
SecondRetryWait == 5

\* nav_result = self.navigate_to_previous_month()
StepBack == Navigate("nav", <<>>, TRUE, "Could not navigate further back")

\* time.sleep(10); nav_result = self.navigate_to_previous_month(retry_on_500=False)
Retry ==
    Navigate("retry1", <<RetryWait>>, FALSE, "Retry failed, skipping to next attempt...")

\* time.sleep(5); nav_result = self.navigate_to_previous_month(retry_on_500=False)
SecondRetry ==
    Navigate("retry2", <<SecondRetryWait>>, FALSE, "Could not navigate past server errors")

\* The rest of the loop body once navigation succeeded.
Process ==
    /\ pc = "process"
    /\ LET month_data == extract_current_month(current_page_html)
       IN  IF month_data = Null
           THEN /\ log' = "Could not determine current month"
                /\ pc' = "summary"
                /\ UNCHANGED <<data, db, save_result, before, saves, processed_months,
                               months_collected, empty_months, outcomes, month_num,
                               empty_keys>>
           ELSE IF AlreadyProcessed(month_data, processed_months)
           THEN /\ log' = "Already processed, skipping..."
                /\ pc' = "loop"
                /\ month_num' = month_num + 1
                /\ UNCHANGED <<data, db, save_result, before, saves, processed_months,
                               months_collected, empty_months, outcomes, empty_keys>>
           ELSE ProcessMonth(month_data, month_num + 1)
    /\ posted' = Null
    /\ UNCHANGED <<current_page_html, months_back, stop_on_empty, nav_result,
                   nav_calls, attempts, next_month_btn, forward_posts, step_backs, response_url,
                   returned, slept>>
    /\ UNCHANGED <<call, api, pace>>

\* What the database does to the queries of show_database_summary.
SummaryFaults == {"none", "select"}

\* show_database_summary(): sqlite3.connect and three SELECTs outside any
\* try, so a sqlite3.Error leaves it, and scrape_historical_data with it.
show_database_summary(fault) == IF fault = "none" THEN "returns" ELSE "raise"

\* The terminal summary and `return True`.
Summary ==
    /\ pc = "summary"
    /\ log' = "HISTORICAL DATA COLLECTION COMPLETE"
    /\ \E fault \in SummaryFaults :
          IF show_database_summary(fault) = "raise"
          THEN pc' = "raised" /\ UNCHANGED returned
          ELSE pc' = "done" /\ returned' = Some(TRUE)
    /\ UNCHANGED <<current_page_html, data, db, save_result, before, saves,
                   months_back, stop_on_empty, month_num, months_collected,
                   empty_months, processed_months, nav_result, nav_calls, outcomes,
                   attempts, next_month_btn, forward_posts, step_backs, response_url,
                   slept, empty_keys>>
    /\ posted' = Null
    /\ UNCHANGED <<call, api, pace>>

Next ==
    \/ Login
    \/ ForwardAlign
    \/ ProcessCurrent
    \/ LoopHead
    \/ StepBack
    \/ Retry
    \/ SecondRetry
    \/ Process
    \/ Summary

Spec == Init /\ [][Next]_vars

\* The run under the assumption that every HTTP request and every storage
\* call returns: the one thread of the run takes its next step.
FairSpec == Spec /\ WF_vars(Next)

(***************************************************************************)
(* NavSpec: one call of navigate_to_previous_month(retry_on_500) from any  *)
(* view, answered by any response or by a transport exception.             *)
(***************************************************************************)
NavInit ==
    /\ current_page_html \in RunPages
    /\ data = EmptyData
    /\ db = NoTables
    /\ save_result = Null
    /\ before = NoTables
    /\ saves = 0
    /\ pc = "call"
    /\ NoRun
    /\ nav_response \in { Some(response) : response \in Responses }
    /\ nav_retry \in BOOLEAN
    /\ NoApi
    /\ NoPace

\* The call: its try block, the branches on response.status_code, and the
\* except clause that turns whatever was raised into False.
NavCall ==
    /\ pc = "call"
    /\ \E r \in {navigate_to_previous_month(current_page_html, Get(nav_response), nav_retry)} :
          /\ current_page_html' = r.view
          /\ nav_result' = r.result
    /\ pc' = "returned"
    /\ UNCHANGED <<data, db, save_result, before, saves, months_back, stop_on_empty,
                   month_num, months_collected, empty_months, processed_months,
                   nav_calls, outcomes, log, attempts, next_month_btn, forward_posts,
                   step_backs, response_url, returned, slept, posted, empty_keys>>
    /\ UNCHANGED <<call, api, pace>>

NavNext == NavCall

NavSpec == NavInit /\ [][NavNext]_vars

(***************************************************************************)
(* ApiSpec: the threads of home_assistant_api that update the data.  Each  *)
(* calls update_data_from_scraper, which runs the scraper as a subprocess  *)
(* and waits for it; the subprocess is one scrape run.                     *)
(***************************************************************************)
\* AUTO_UPDATE
AutoUpdate == BOOLEAN

\* if AUTO_UPDATE: threading.Thread(target=auto_update_loop).start(), then
\* app.run: the scheduler sleeps until the update hour, or was not started.
ApiInit ==
    /\ current_page_html = BlankPage
    /\ data = EmptyData
    /\ db = NoTables
    /\ save_result = Null
    /\ before = NoTables
    /\ saves = 0
    /\ pc = "serve"
    /\ NoRun
    /\ NoCall
    /\ \E auto_update \in AutoUpdate :
          worker = [w \in Workers |->
                       IF w = Scheduler /\ auto_update THEN "sleep" ELSE "absent"]
    /\ triggers = 0
    /\ NoPace

\* auto_update_loop: time.sleep(sleep_seconds) is over, and
\* update_data_from_scraper() is called.
Wake ==
    /\ worker[Scheduler] = "sleep"
    /\ worker' = [worker EXCEPT ![Scheduler] = "update"]
    /\ UNCHANGED <<current_page_html, data, db, save_result, before, saves, pc, run,
                   call, triggers, pace>>

\* POST /api/update: trigger_update starts a thread whose target is
\* update_data_from_scraper, and answers 'update started'.
TriggerUpdate ==
    /\ triggers < MaxTriggers
    /\ triggers' = triggers + 1
    /\ worker' = [worker EXCEPT ![<<"trigger_update", triggers + 1>>] = "update"]
    /\ UNCHANGED <<current_page_html, data, db, save_result, before, saves, pc, run,
                   call, pace>>

\* Where a thread is once update_data_from_scraper returned: the scheduler
\* is back in its loop, a trigger's thread is over.
AfterUpdate(w) == IF w = Scheduler THEN "sleep" ELSE "done"

\* update_data_from_scraper calls subprocess.run: the scraper starts, or the
\* child could not be started and the exception is logged.
StartScraper(w) ==
    /\ worker[w] = "update"
    /\ \E started \in BOOLEAN :
          worker' = [worker EXCEPT ![w] = IF started THEN "run" ELSE AfterUpdate(w)]
    /\ UNCHANGED <<current_page_html, data, db, save_result, before, saves, pc, run,
                   call, triggers, pace>>

\* The scraper exits; subprocess.run returns, the return code is logged and
\* update_data_from_scraper returns.
ExitScraper(w) ==
    /\ worker[w] = "run"
    /\ worker' = [worker EXCEPT ![w] = AfterUpdate(w)]
    /\ UNCHANGED <<current_page_html, data, db, save_result, before, saves, pc, run,
                   call, triggers, pace>>

ApiNext ==
    \/ Wake
    \/ TriggerUpdate
    \/ \E w \in Workers : StartScraper(w)
    \/ \E w \in Workers : ExitScraper(w)

ApiSpec == ApiInit /\ [][ApiNext]_vars

(***************************************************************************)
(* PaceSpec: the pacing at the head of one iteration of the backward loop, *)
(* for any loop index and any pause_interval and pause_duration.           *)
(***************************************************************************)
\* Largest pause_interval of an iteration.
MaxPauseInterval == 3

\* Largest pause_duration of an iteration.
MaxPauseDuration == 12

PaceInit ==
    /\ current_page_html = BlankPage
    /\ data = EmptyData
    /\ db = NoTables
    /\ save_result = Null
    /\ before = NoTables
    /\ saves = 0
    /\ pc = "pace"
    /\ months_back = MaxMonthsBack + 1
    /\ month_num \in 1..MaxMonthsBack
    /\ stop_on_empty = TRUE
    /\ months_collected = 0
    /\ empty_months = 0
    /\ processed_months = {}
    /\ nav_result = "False"
    /\ nav_calls = 0
    /\ outcomes = <<>>
    /\ log = ""
    /\ attempts = 0
    /\ next_month_btn = "absent"
    /\ forward_posts = 0
    /\ step_backs = 0
    /\ response_url = Null
    /\ returned = Null
    /\ slept = <<>>
    /\ posted = Null
    /\ empty_keys = {}
    /\ NoCall
    /\ NoApi
    /\ pause_interval \in -1..MaxPauseInterval
    /\ pause_duration \in -1..MaxPauseDuration
    /\ pause_left = Null

\* if pause_interval > 0 and month_num > 0 and month_num % pause_interval == 0
LongPause(interval, index) == interval > 0 /\ index > 0 /\ index % interval = 0

\* As Chunk, sleeping 5 s in every turn.
ChunkOfFive(left) == IF left <= 0 THEN 0 ELSE 5

\* min(5, i)
Chunk(left) == IF left < 5 THEN left ELSE 5

\* The branch on the pause: the long pause begins with i = pause_duration, or
\* time.sleep(1).
PaceHead ==
    /\ pc = "pace"
    /\ IF LongPause(pause_interval, month_num)
       THEN /\ pause_left' = Some(pause_duration)
            /\ pc' = "pause"
            /\ log' = "Pausing to let server catch up..."
            /\ UNCHANGED slept
       ELSE /\ slept' = Append(slept, 1)
            /\ pc' = "paced"
            /\ UNCHANGED <<pause_left, log>>
    /\ UNCHANGED <<current_page_html, data, db, save_result, before, saves,
                   months_back, stop_on_empty, month_num, months_collected,
                   empty_months, processed_months, nav_result, nav_calls, outcomes,
                   attempts, next_month_btn, forward_posts, step_backs,
                   response_url, returned, posted, empty_keys>>
    /\ UNCHANGED <<call, api, pause_interval, pause_duration>>

\* One turn of `for i in range(pause_duration, 0, -5): time.sleep(min(5, i))`,
\* or its end.
PauseTurn ==
    /\ pc = "pause"
    /\ IF Get(pause_left) > 0
       THEN /\ slept' = Append(slept, Chunk(Get(pause_left)))
            /\ pause_left' = Some(Get(pause_left) - 5)
            /\ UNCHANGED pc
       ELSE /\ pc' = "paced"
            /\ pause_left' = Null
            /\ UNCHANGED slept
    /\ UNCHANGED <<current_page_html, data, db, save_result, before, saves,
                   months_back, stop_on_empty, month_num, months_collected,
                   empty_months, processed_months, nav_result, nav_calls, outcomes,
                   log, attempts, next_month_btn, forward_posts, step_backs,
                   response_url, returned, posted, empty_keys>>
    /\ UNCHANGED <<call, api, pause_interval, pause_duration>>

PaceNext == PaceHead \/ PauseTurn

PaceSpec == PaceInit /\ [][PaceNext]_vars

(***************************************************************************)
(* Vocabulary of the properties                                            *)
(***************************************************************************)
\* The calendar date a category names on a page of the given year: a
\* day/abbreviated-month category takes the year of the page, a category
\* with a year of its own keeps it.  Null when it names no date.
Denotes(date_str, year) ==
    IF Len(date_str) = 2 /\ year # Null
    THEN Strptime(date_str \o <<YearStr(year)>>, AlternativeFormat)
    ELSE Strptime(date_str, AlternativeFormat)

\* The reading d carries the value v for the calendar date dt.
Carries(d, dt, v) ==
    \E i \in 1..Len(Zip(d.dates, d.consumption)) :
        /\ Denotes(d.dates[i], d.year) = Some(dt)
        /\ d.consumption[i] = v

\* The dates the reading d carries a value for.
CarriedDates(d) ==
    { Get(Denotes(d.dates[i], d.year)) :
        i \in { j \in 1..Len(Zip(d.dates, d.consumption)) :
                  Denotes(d.dates[j], d.year) # Null } }

\* The DailyRecords stored for (dt, location), in rowid order.
RecordsFor(table, dt, location) ==
    SelectSeq(table, LAMBDA r : r.consumption_date = dt /\ r.location = location)

HasPositive(rows) == \E i \in 1..Len(rows) : rows[i].consumption_kwh > 0

\* A save_to_database call has returned / has returned True.
Returned == pc = "saved"

Committed == pc = "saved" /\ save_result = Some(TRUE)

(***************************************************************************)
(* Properties of the reconciliation writer, checked under StoreSpec.       *)
(***************************************************************************)
\* C1 (non-regression): a save whose reading carries the value 0 for a date,
\* at a location for which a DailyRecord with a positive value is stored,
\* leaves the records stored for that date and location as they were.
C1_NonRegression ==
    Returned =>
        \A dt \in CarriedDates(data) :
            (HasPositive(RecordsFor(before.daily, dt, data.location))
               /\ Carries(data, dt, 0))
            => RecordsFor(db.daily, dt, data.location)
                 = RecordsFor(before.daily, dt, data.location)

\* A committed save carried 0 for a date stored with a positive value, and
\* changed the record of another date in the same call.
C1_Witness ==
    /\ Committed
    /\ db.daily # before.daily
    /\ \E dt \in CarriedDates(data) :
          /\ HasPositive(RecordsFor(before.daily, dt, data.location))
          /\ Carries(data, dt, 0)

\* C2 (positive replacement), as claimed: after a committed save that
\* carries, for a date and location that have a DailyRecord, a positive value
\* other than the stored one, the stored value is the new value.
C2_PositiveReplacement ==
    Committed =>
        \A dt \in CarriedDates(data) : \A i \in 1..Len(data.consumption) :
            LET v == data.consumption[i]
                old == RecordsFor(before.daily, dt, data.location)
                new == RecordsFor(db.daily, dt, data.location)
            IN  (/\ Carries(data, dt, v)
                 /\ v > 0
                 /\ old # <<>>
                 /\ \A k \in 1..Len(old) : old[k].consumption_kwh # v)
                => \A k \in 1..Len(new) : new[k].consumption_kwh = v

\* C3 (no zero creation): a save whose reading carries the value 0 for a
\* date that has no DailyRecord at the reading's location creates none.
C3_NoZeroCreation ==
    Returned =>
        \A dt \in CarriedDates(data) :
            (RecordsFor(before.daily, dt, data.location) = <<>> /\ Carries(data, dt, 0))
            => RecordsFor(db.daily, dt, data.location) = <<>>

\* A committed save carried 0 for a date without a record and inserted the
\* record of another date.
C3_Witness ==
    /\ Committed
    /\ Len(db.daily) > Len(before.daily)
    /\ \E dt \in CarriedDates(data) :
          /\ RecordsFor(before.daily, dt, data.location) = <<>>
          /\ Carries(data, dt, 0)

March(day) == [year |-> 2024, month |-> 3, day |-> day]

\* C8, as claimed: on an empty store, the committed save of the reading
\* ('Main House', March 2024, ['01/Mar','02/Mar'], [12.5, 0.0]) leaves a
\* DailyRecord of 12.5 for 1 March 2024 and none for 2 March 2024.
C8_ShortDatesTakeTheReadingsYear ==
    (/\ Committed
     /\ before = NoTables
     /\ data.location = Some(MainHouse)
     /\ data.month = Some("March") /\ data.year = Some(2024)
     /\ data.dates = << <<"01", "Mar">>, <<"02", "Mar">> >>
     /\ data.consumption = <<125, 0>>)
    => /\ \E i \in 1..Len(db.daily) :
             /\ db.daily[i].consumption_date = March(1)
             /\ db.daily[i].consumption_kwh = 125
             /\ db.daily[i].location = Some(MainHouse)
       /\ RecordsFor(db.daily, March(2), Some(MainHouse)) = <<>>

\* The meter_readings row a call writes, Null when the reading has none to
\* write (no value, no date, or a date not in the long form).
MeterRowOf(d) ==
    LET dt == IF TruthyNumber(d.meter_reading) /\ TruthyText(d.reading_date)
              THEN Strptime(Get(d.reading_date), LongFormat) ELSE Null
    IN  IF dt = Null THEN Null
        ELSE Some([reading_date |-> Get(dt), meter_value |-> Get(d.meter_reading),
                   unit |-> "kWh", location |-> d.location])

InTable(table, row) == \E i \in 1..Len(table) : table[i] = row

\* C9 (atomic reconciliation), as claimed: a call that reports failure
\* leaves the store as it was, and a call that reports success has committed
\* every one of its writes: the meter reading, the monthly summary and the
\* scrape history (so no write of it failed).
C9_Atomic ==
    Returned =>
        /\ save_result = Some(FALSE) => db = before
        /\ save_result = Some(TRUE) =>
              /\ MeterRowOf(data) # Null => InTable(db.meter, Get(MeterRowOf(data)))
              /\ \E i \in 1..Len(db.summary) :
                    /\ db.summary[i].month = data.month
                    /\ db.summary[i].year = data.year
                    /\ db.summary[i].location = data.location
              /\ \E i \in 1..Len(db.history) :
                    /\ db.history[i].month = data.month
                    /\ db.history[i].year = data.year
                    /\ db.history[i].location = data.location

\* C10 (monthly summary recomputed), as claimed: after a committed save of a
\* reading R, a MonthlySummary is stored for (R.month, R.year, R.location)
\* and what is stored for that key is (sum, mean, count) of R.consumption.
C10_SummaryRecomputed ==
    Committed =>
        LET rows == SelectSeq(db.summary,
                        LAMBDA r : /\ r.month = data.month
                                   /\ r.year = data.year
                                   /\ r.location = data.location)
        IN  /\ rows # <<>>
            /\ \A i \in 1..Len(rows) :
                  /\ rows[i].total_consumption = Some(Sum(data.consumption))
                  /\ rows[i].average_daily = Some(Mean(data.consumption))
                  /\ rows[i].days_count = Len(data.consumption)

\* C11 (key uniqueness), as claimed: the store holds at most one DailyRecord
\* per (date, location), a reading without location included.
C11_KeyUniqueness ==
    \A i, j \in 1..Len(db.daily) :
        (/\ db.daily[i].consumption_date = db.daily[j].consumption_date
         /\ db.daily[i].location = db.daily[j].location)
        => i = j

(***************************************************************************)
(* Properties of the extractor, checked under ExtractSpec.                 *)
(***************************************************************************)
\* C5 (extraction pairing), as claimed: the reading returned has as many
\* dates as consumption values, and no consumption value is negative.
C5_ExtractionPairing ==
    pc = "extracted" =>
        /\ Len(data.dates) = Len(data.consumption)
        /\ \A i \in 1..Len(data.consumption) : data.consumption[i] >= 0

Shorter(m, n) == IF m <= n THEN m ELSE n

\* C5, amended: dates and consumption are filtered independently of one
\* another; the (date, value) pairs reconciliation takes from them are
\* index-aligned and as many as the shorter list; every date kept holds a
\* separator; and no consumption value is negative unless the series of the
\* page holds a negative bare number (a {y: ...} entry never yields one).
C5_PairsAlignedObjectValuesNonNegative ==
    pc = "extracted" =>
        LET pairs == Zip(data.dates, data.consumption)
        IN  /\ Len(pairs) = Shorter(Len(data.dates), Len(data.consumption))
            /\ \A i \in 1..Len(pairs) : pairs[i] = <<data.dates[i], data.consumption[i]>>
            /\ \A i \in 1..Len(data.dates) : Len(data.dates[i]) >= 2
            /\ Len(data.dates) <= Len(current_page_html.categories)
            /\ Len(data.consumption) <= Len(current_page_html.series)
            /\ (\A k \in 1..Len(current_page_html.series) :
                    current_page_html.series[k].kind = "num"
                    => current_page_html.series[k].v >= 0)
               => \A i \in 1..Len(data.consumption) : data.consumption[i] >= 0

\* A page with two dated categories whose series is a negative {y: ...}
\* entry, which is skipped, and a value, which is kept: one value for two
\* dates.
C5_Witness ==
    /\ pc = "extracted"
    /\ current_page_html.series = <<Obj(-30), Num(125)>>
    /\ Len(data.dates) = 2
    /\ data.consumption = <<125>>

(***************************************************************************)
(* Properties of the collection driver, checked under Spec.                *)
(***************************************************************************)
\* A step of the run sends a step-back request.
SendsStepBack == nav_calls' = nav_calls + 1

\* C4 (idempotent re-run within one run): when the step-back has landed on
\* a month already in processed_months, the driver extracts nothing, calls
\* save_to_database not at all (store and scrape history unchanged), leaves
\* months_collected and empty_months alone, and goes on to the next loop
\* iteration.
C4_SkipAlreadyProcessed ==
    [][ (/\ pc = "process"
         /\ extract_current_month(current_page_html) # Null
         /\ extract_current_month(current_page_html) \in processed_months)
        => (/\ db' = db
            /\ data' = data
            /\ saves' = saves
            /\ months_collected' = months_collected
            /\ empty_months' = empty_months
            /\ processed_months' = processed_months
            /\ pc' = "loop"
            /\ month_num' = month_num + 1
            /\ returned' = Null) ]_vars

\* The driver has skipped an already processed month, with iterations left.
C4_Witness ==
    /\ pc = "loop"
    /\ log = "Already processed, skipping..."
    /\ extract_current_month(current_page_html) \in processed_months
    /\ month_num < months_back
    /\ db.daily # <<>>

\* C6 (retry bound): an iteration sends at most three step-back requests:
\* one when the retry signal has just come back, two when the first retry
\* has failed, and never a fourth.
C6_RetryBound ==
    /\ nav_calls <= 3
    /\ pc = "nav" => nav_calls = 0
    /\ pc = "retry1" => nav_calls = 1 /\ nav_result = "retry_500"
    /\ pc = "retry2" => nav_calls = 2
    /\ nav_calls >= 2 /\ pc = "process" => nav_result = "True"

\* After a retry signal and two failed retries the driver has skipped to the
\* next iteration.
C6_Witness ==
    /\ nav_calls = 3
    /\ pc = "loop"
    /\ log = "Could not navigate past server errors"

\* The last three months the run processed held no consumption entry.
ThreeEmptyInARow ==
    /\ Len(outcomes) >= 3
    /\ \A i \in (Len(outcomes) - 2)..Len(outcomes) : outcomes[i] = "empty"

\* C7 (stop on empty): with stop_on_empty, once the last three processed
\* months were empty no step sends a step-back request, and the driver, if
\* iterations are left, leaves the loop for the summary without using them.
C7_StopOnEmpty ==
    [][ (stop_on_empty /\ ThreeEmptyInARow)
        => (/\ ~SendsStepBack
            /\ pc \notin {"nav", "retry1", "retry2", "process"}
            /\ (pc = "loop" /\ month_num < months_back)
               => (pc' = "summary" /\ month_num' = month_num)) ]_vars

\* The run ended on three empty months with iterations left.
C7_Witness ==
    /\ pc = "done"
    /\ stop_on_empty
    /\ ThreeEmptyInARow
    /\ month_num < months_back
    /\ returned = Some(TRUE)

\* The positions inside an iteration of the backward loop, and with its head.
InIteration == {"nav", "retry1", "retry2", "process"}

LoopPositions == {"loop"} \cup InIteration

\* The run has ended: by a return, or by an exception nothing caught.
Ended == pc \in {"done", "raised"}

\* The login post ended on the authenticated landing page.
LoggedIn == response_url # Null /\ IsLanding(Get(response_url))

\* C12 (skip and continue): when the step-back that follows the retry signal
\* and the first failed retry fails too, the driver does not leave the loop:
\* it processes nothing, takes the next value of month_num, and, if the range
\* is not used up, sends the step-back of the next iteration.
C12_SkipAndContinue ==
    [][ /\ (pc = "retry2" /\ nav_result' = "False")
           => /\ pc' = "loop"
              /\ month_num' = month_num + 1
              /\ returned' = Null
              /\ db' = db /\ saves' = saves /\ outcomes' = outcomes
        /\ (/\ pc = "loop"
            /\ log = "Could not navigate past server errors"
            /\ month_num < months_back
            /\ ~(stop_on_empty /\ empty_months >= max_empty_months))
           => pc' = "nav" ]_vars

\* After a retry signal and two failed retries the driver is at the
\* step-back of the next iteration.
C12_Witness ==
    /\ pc = "nav"
    /\ log = "Could not navigate past server errors"
    /\ nav_result = "False"
    /\ month_num >= 2

\* The backward loop ends in this step with iterations left or under way.
LoopEndsEarly ==
    /\ pc \in LoopPositions
    /\ ~(pc = "loop" /\ month_num >= months_back)
    /\ pc' \in {"summary", "done", "raised"}

C14_AuthenticationFailureAborts ==
    /\ (response_url # Null /\ ~IsLanding(Get(response_url)))
       => (pc = "done" /\ returned = Some(FALSE) /\ log = "Login failed")
    /\ returned = Some(FALSE)
       => /\ response_url # Null /\ ~LoggedIn
          /\ step_backs = 0 /\ nav_calls = 0 /\ forward_posts = 0
          /\ saves = 0 /\ db = NoTables /\ data = EmptyData

\* A run asked for several months has returned False.
C14_Witness ==
    /\ returned = Some(FALSE)
    /\ pc = "done"
    /\ months_back >= 2

Larger(m, n) == IF m >= n THEN m ELSE n

\* C15 (month budget), as claimed: no step-back before the loaded view is
\* processed, an iteration only with month_num below months_back, and
\* months_collected at most months_back.
C15_MonthBudget ==
    /\ step_backs > 0 => pc \notin {"login", "align", "first"}
    /\ pc \in InIteration => (1 <= month_num /\ month_num <= months_back - 1)
    /\ months_collected <= months_back

\* C15, amended: as claimed, but months_collected is at most months_back only
\* for months_back >= 1; the loaded view is processed whatever months_back
\* is, so the bound is 1 for months_back = 0.
C15_MonthBudgetAtLeastOne ==
    /\ step_backs > 0 => pc \notin {"login", "align", "first"}
    /\ pc \in InIteration => (1 <= month_num /\ month_num <= months_back - 1)
    /\ month_num <= Larger(1, months_back)
    /\ months_collected <= Larger(1, months_back)

\* A run asked for no month has collected the month of the loaded view.
C15_Witness ==
    /\ months_back = 0
    /\ months_collected = 1
    /\ pc = "done"
    /\ step_backs = 0

\* C16 (persistence failure is contained): a save_to_database call of the
\* driver that fails leaves the store as it was and the run going: the driver
\* is at the head of the loop, has not returned, and, with iterations left,
\* sends the next step-back.
C16_PersistenceFailureContained ==
    [][ /\ (saves' = saves + 1 /\ save_result' = Some(FALSE))
           => (pc' = "loop" /\ returned' = Null /\ db' = db)
        /\ (/\ pc = "loop"
            /\ log = "Found days of data"
            /\ save_result = Some(FALSE)
            /\ month_num < months_back)
           => pc' = "nav" ]_vars

\* After a failed save the driver is at the step-back of the next iteration.
C16_Witness ==
    /\ pc = "nav"
    /\ log = "Found days of data"
    /\ save_result = Some(FALSE)
    /\ db = before

\* C17 (terminal summary), as claimed: a run in which login succeeded ends
\* in no other way than with the terminal summary and the value True.
C17_TerminalSummary ==
    (LoggedIn /\ Ended) => (pc = "done" /\ returned = Some(TRUE))

\* C19 (run termination), as claimed: a run sends at most 12 forward
\* postbacks during forward-align and at most 3 * (months_back - 1) step-back
\* postbacks during the backward loop, and it ends.
C19_RunTermination ==
    /\ [](/\ forward_posts <= max_attempts
          /\ step_backs <= 3 * (months_back - 1))
    /\ <>Ended

\* C19, amended: as claimed, with the bound on step-back postbacks
\* 3 * max(0, months_back - 1): a run asked for no month has no iteration
\* and sends none.
C19_RunTerminationFromNoMonth ==
    /\ [](/\ forward_posts <= max_attempts
          /\ step_backs <= 3 * Larger(0, months_back - 1))
    /\ <>Ended

\* A run has ended after three step-back postbacks in each of its
\* iterations.
C19_Witness ==
    /\ Ended
    /\ months_back >= 3
    /\ step_backs = 3 * (months_back - 1)

\* The response of the call is an HTTP response with this status.
Status(st) ==
    /\ nav_response # Null
    /\ Get(nav_response).kind = "http"
    /\ Get(nav_response).status = st

\* A MonthKey is derivable from the body of the response.
MonthDerivable ==
    /\ nav_response # Null
    /\ extract_current_month(Get(nav_response).body) # Null

ActiveRuns == { w \in Workers : worker[w] = "run" }

\* C18 (mutual exclusion of scrape runs): across auto_update_loop and any
\* number of POST /api/update triggers, at most one scrape run is active at
\* any time.
C18_MutualExclusion == Cardinality(ActiveRuns) <= 1

\* C21 (escalating retry delay): in the transient-retry sequence of one
\* iteration, the wait before the second retry is strictly longer than the
\* wait before the first retry.
C21_EscalatingRetryDelay == Len(slept) = 2 => slept[2] > slept[1]

Answered200(sent) ==
    /\ sent # Null
    /\ Get(sent).response.kind = "http"
    /\ Get(sent).response.status = 200

\* C23 (currentView frame): current_page_html is replaced only by the body of
\* a status-200 postback response or by the login landing page.  A step-back
\* or forward step that met a 500 (retry signal or not), another non-200
\* status or a transport exception leaves it unchanged; a 200 replaces it,
\* also when the step is then reported as failure.
C23_ViewReplacedOnlyBy200 ==
    [][ /\ Answered200(posted') => current_page_html' = Get(posted').response.body
        /\ (posted' # Null /\ ~Answered200(posted')) =>
              current_page_html' = current_page_html
        /\ (posted' = Null /\ current_page_html' # current_page_html) =>
              (pc = "login" /\ LoggedIn') ]_vars

\* A step-back sent from a month page was answered by a 200 that shows no
\* month: it is reported as failure and the view is the new body.
C23_Witness ==
    /\ Answered200(posted)
    /\ "prevMonth_btn" \in DOMAIN Get(posted).data
    /\ "__VIEWSTATE" \in DOMAIN Get(posted).data
    /\ nav_result = "False"
    /\ current_page_html = BlankPage

\* The hidden state tokens of a page.
StateTokens == {"__VIEWSTATE", "__VIEWSTATEGENERATOR", "__EVENTVALIDATION"}

\* The form `form` carries the state tokens of the page html, and no other.
CarriesTokensOf(form, html) ==
    \A n \in StateTokens :
        IF n \in DOMAIN html.inputs
        THEN n \in DOMAIN form /\ form[n] = html.inputs[n]
        ELSE n \notin DOMAIN form

\* C24 (postback continuity): every navigation postback, forward or backward,
\* retries after a 500 included, carries the hidden state tokens extracted
\* from the current_page_html held when it is sent, exactly one navigation
\* control field, and empty event-target and event-argument fields; tokens of
\* a superseded view are never sent.
C24_PostbackContinuity ==
    [][ posted' # Null =>
           /\ CarriesTokensOf(Get(posted').data, current_page_html)
           /\ Cardinality(DOMAIN Get(posted').data \cap {"prevMonth_btn", "nextMonth_btn"}) = 1
           /\ Get(posted').data["__EVENTTARGET"] = <<>>
           /\ Get(posted').data["__EVENTARGUMENT"] = <<>> ]_vars

\* The retry that follows a 500 has been sent from a February page reached by
\* an earlier step-back of the run, with that page's tokens.
C24_Witness ==
    /\ posted # Null
    /\ slept = <<10>>
    /\ step_backs >= 3
    /\ "prevMonth_btn" \in DOMAIN Get(posted).data
    /\ "__VIEWSTATE" \in DOMAIN Get(posted).data
    /\ Get(posted).data["__VIEWSTATE"][2] = "Feb"

\* C25 (pacing): before the first step-back of an iteration the driver blocks
\* exactly once: when pause_interval > 0 and the loop index is a multiple of
\* it, for pause_duration seconds in all (for every pause_duration >= 0), in
\* chunks of at most 5 s; otherwise, and so whenever pause_interval <= 0, for
\* exactly 1 second.
C25_Pacing ==
    pc = "paced" =>
        IF pause_interval > 0 /\ month_num % pause_interval = 0
        THEN pause_duration >= 0 =>
                /\ Sum(slept) = pause_duration
                /\ \A k \in 1..Len(slept) : slept[k] <= 5
        ELSE slept = <<1>>

\* A long pause of 12 s has been slept as 5 s, 5 s and 2 s.
C25_Witness ==
    /\ pc = "paced"
    /\ pause_interval = 2
    /\ month_num = 4
    /\ pause_duration = 12
    /\ slept = <<5, 5, 2>>

\* C26 (completion only on commit): a MonthKey is added to processed_months
\* and counted in months_collected only if the save_to_database call for
\* that month committed; a month whose save failed and rolled back is not
\* recorded as completed.
C26_CompletionOnlyOnCommit ==
    [][ (processed_months' # processed_months \/ months_collected' > months_collected)
            => save_result' = Some(TRUE) ]_vars

RECURSIVE DailyTotal(_)
\* The sum of the values of DailyRecords.
DailyTotal(rows) ==
    IF rows = <<>> THEN 0 ELSE rows[1].consumption_kwh + DailyTotal(Tail(rows))

\* The DailyRecords stored for the month, year and location of a summary.
DailyOf(s) ==
    SelectSeq(daily_consumption,
              LAMBDA r : r.month = s.month /\ r.year = s.year /\ r.location = s.location)

\* C28 (store consistency between tables), as claimed: after every committed
\* save, the total of each MonthlySummary stored equals the sum of the
\* DailyRecord values stored for its month, year and location.
C28_StoreConsistency ==
    Committed =>
        \A i \in 1..Len(consumption_summary) :
            consumption_summary[i].total_consumption
                = Some(DailyTotal(DailyOf(consumption_summary[i])))

\* C28, amended: after every committed save of a reading R, the
\* MonthlySummary the save wrote, the newest row of consumption_summary, is
\* the one of (R.month, R.year, R.location) and its total is the sum of
\* R.consumption, the values just extracted, whatever the DailyRecords hold.
C28_SummaryFromExtraction ==
    Committed =>
        /\ consumption_summary # <<>>
        /\ LET s == consumption_summary[Len(consumption_summary)]
           IN  /\ s.month = data.month
               /\ s.year = data.year
               /\ s.location = data.location
               /\ s.total_consumption = Some(Sum(data.consumption))

\* A committed save at a location wrote a summary whose total is below the
\* sum of the DailyRecords of its month: a stored positive value was kept
\* where the reading had 0.
C28_Witness ==
    /\ Committed
    /\ data.location # Null
    /\ consumption_summary # <<>>
    /\ LET s == consumption_summary[Len(consumption_summary)]
       IN  /\ s.total_consumption = Some(Sum(data.consumption))
           /\ Sum(data.consumption) < DailyTotal(DailyOf(s))

\* C29 (empty months are counted per distinct month): each MonthKey
\* contributes at most once to the consecutive-empty counter, so the counter
\* is the number of distinct months found empty since it was last 0, and
\* stop-on-empty fires only after three distinct months were found empty.
C29_EmptyCountedPerMonth ==
    /\ empty_months = Cardinality(empty_keys)
    /\ log = "Stopped after consecutive empty months" => Cardinality(empty_keys) >= 3

\* C30 (collected months and saves): for a freshly constructed scraper, at
\* every point of a run months_collected is the number of distinct MonthKeys
\* in processed_months, and save_to_database is invoked at most once per
\* MonthKey: each call is for the month displayed, which is not in
\* processed_months before the call and is in it after.
C30_CollectedMonths ==
    /\ [](months_collected = Cardinality(processed_months))
    /\ [][ saves' # saves =>
              /\ saves' = saves + 1
              /\ extract_current_month(current_page_html) \notin processed_months
              /\ extract_current_month(current_page_html) \in processed_months' ]_vars

\* A run has ended after saving two months, one call each.
C30_Witness ==
    /\ pc = "done"
    /\ saves = 2
    /\ months_collected = 2
    /\ Cardinality(processed_months) = 2

\* C31 (login success does not depend on forward-align): once the login post
\* ended on the authenticated landing page, login returns True and
\* current_page_html holds a page body: forward-align neither fails the run
\* nor raises, and a forward postback that meets a non-200 status or a
\* transport exception ends it with the view as it was.
C31_LoginIndependentOfForwardAlign ==
    /\ [][ /\ (pc = "login" /\ LoggedIn') => (pc' = "align" /\ returned' = Null)
           /\ pc = "align" => (pc' \in {"align", "first"} /\ returned' = Null)
           /\ (pc = "align" /\ posted' # Null /\ ~Answered200(posted')) =>
                 (pc' = "first" /\ current_page_html' = current_page_html) ]_vars
    /\ [](pc \in {"align", "first"} => (LoggedIn /\ current_page_html \in RunPages))

\* login has returned True after its forward postback met a transport
\* exception, with a month page as the view.
C31_Witness ==
    /\ pc = "first"
    /\ LoggedIn
    /\ returned = Null
    /\ posted # Null
    /\ Get(posted).response.kind = "exception"
    /\ "nextMonth_btn" \in DOMAIN Get(posted).data
    /\ extract_current_month(current_page_html) # Null

\* C32 (a month is derivable past navigation): whenever the driver proceeds
\* past navigation in a loop iteration, the step-back it last made returned
\* True and a MonthKey is derivable from current_page_html, so the branch
\* 'Could not determine current month' is never taken.
C32_MonthDerivablePastNavigation ==
    /\ pc = "process" =>
          /\ nav_result = "True"
          /\ extract_current_month(current_page_html) # Null
    /\ log # "Could not determine current month"

\* The driver is past navigation after the second retry of an iteration
\* succeeded.
C32_Witness ==
    /\ pc = "process"
    /\ nav_calls = 3
    /\ slept = <<10, 5>>
    /\ nav_result = "True"
    /\ extract_current_month(current_page_html) # Null

====
